---------------------------- MODULE Spec2Model ----------------------------
(***************************************************************************)
(* A model of pwstore (src/pwstore.py): the Vigenere codec, the shelve     *)
(* store with its `_serial` counter, and the add / remove / update / get / *)
(* list commands.                                                          *)
(*                                                                         *)
(* A Python str is a sequence of code points (naturals); a bytes object is *)
(* a sequence of naturals below 256.  "ab" is <<97, 98>>.                  *)
(***************************************************************************)
EXTENDS Naturals, Sequences, FiniteSets, TLC

(***************************************************************************)
(* Bounds of the model.                                                    *)
(***************************************************************************)
\* successful adds in one behaviour
MaxAdds == 2
\* successful updates in one behaviour
MaxUpdates == 1
\* length of the longer plaintexts drawn for the codec
MaxStrLen == 2
\* the largest serial an address is composed from
MaxSerial == 11

(***************************************************************************)
(* Characters.                                                             *)
(***************************************************************************)
\* '_', the delimiter of the address format (pwstore.py:329)
Underscore == 95

\* '=', base64 padding
PadChar == 61

\* str(n) for a natural n, as code points ('0' is 48)
RECURSIVE IntToStr(_)
IntToStr(n) ==
    IF n < 10 THEN << 48 + n >>
    ELSE Append(IntToStr(n \div 10), 48 + (n % 10))

\* one character of str.lower(): ASCII A-Z, Latin-1 U+00C0..U+00DE without
\* U+00D7, and the even code points of U+0100..U+012F have a lowercase form
LowerChar(c) ==
    IF c >= 65 /\ c <= 90 THEN c + 32
    ELSE IF c >= 192 /\ c <= 222 /\ c # 215 THEN c + 32
    ELSE IF c >= 256 /\ c <= 303 /\ c % 2 = 0 THEN c + 1
    ELSE c

\* str.lower()
Lower(str) == [i \in 1..Len(str) |-> LowerChar(str[i])]

\* hay.startswith(needle)
Contains_at_start(hay, needle) ==
    /\ Len(needle) <= Len(hay)
    /\ \A j \in 1..Len(needle) : hay[j] = needle[j]

\* `needle in hay` for two str
Contains(hay, needle) ==
    \E i \in 0..(Len(hay) - Len(needle)) :
        \A j \in 1..Len(needle) : hay[i + j] = needle[j]

(***************************************************************************)
(* str.encode() / bytes.decode(): UTF-8, for code points below 0x800.      *)
(***************************************************************************)
RECURSIVE Utf8Encode(_)
Utf8Encode(str) ==
    IF str = << >> THEN << >>
    ELSE LET c == Head(str) IN
         (IF c < 128 THEN << c >>
          ELSE << 192 + (c \div 64), 128 + (c % 64) >>)
         \o Utf8Encode(Tail(str))

\* one- and two-byte sequences, which is all that Utf8Encode of code points
\* below 256 produces
RECURSIVE Utf8Decode(_)
Utf8Decode(bytes) ==
    IF bytes = << >> THEN << >>
    ELSE LET b == Head(bytes) IN
         IF b < 128 THEN << b >> \o Utf8Decode(Tail(bytes))
         ELSE << (b - 192) * 64 + (bytes[2] - 128) >>
              \o Utf8Decode(Tail(Tail(bytes)))

(***************************************************************************)
(* base64.urlsafe_b64encode / urlsafe_b64decode.                           *)
(***************************************************************************)
\* the character of a 6-bit value in the URL-safe alphabet A-Z a-z 0-9 - _
B64Char(v) ==
    IF v < 26 THEN 65 + v
    ELSE IF v < 52 THEN 71 + v
    ELSE IF v < 62 THEN v - 4
    ELSE IF v = 62 THEN 45
    ELSE 95

\* the 6-bit value of a character of the URL-safe alphabet ('=' counts 0)
B64Value(c) ==
    IF c >= 65 /\ c <= 90 THEN c - 65
    ELSE IF c >= 97 /\ c <= 122 THEN c - 71
    ELSE IF c >= 48 /\ c <= 57 THEN c + 4
    ELSE IF c = 45 THEN 62
    ELSE IF c = 95 THEN 63
    ELSE 0

\* bytes -> str: each group of three bytes makes four characters of six
\* bits; a short last group is filled with '='
B64Encode(bytes) ==
    LET n == Len(bytes)
        At(i) == IF i <= n THEN bytes[i] ELSE 0
    IN  [j \in 1..(4 * ((n + 2) \div 3)) |->
            LET b == 3 * ((j - 1) \div 4)
                p == (j - 1) % 4
            IN  IF p = 0 THEN B64Char(bytes[b + 1] \div 4)
                ELSE IF p = 1 THEN
                    B64Char((bytes[b + 1] % 4) * 16 + (At(b + 2) \div 16))
                ELSE IF b + p > n THEN PadChar
                ELSE IF p = 2 THEN
                    B64Char((bytes[b + 2] % 16) * 4 + (At(b + 3) \div 64))
                ELSE B64Char(bytes[b + 3] % 64)]

\* str -> bytes, for a padded string of whole groups of four
B64Decode(str) ==
    LET m == Len(str)
        npad == IF m = 0 \/ str[m] # PadChar THEN 0
                ELSE IF str[m - 1] # PadChar THEN 1 ELSE 2
    IN  [i \in 1..(3 * (m \div 4) - npad) |->
            LET c == 4 * ((i - 1) \div 3)
                q == (i - 1) % 3
            IN  IF q = 0 THEN
                    B64Value(str[c + 1]) * 4 + (B64Value(str[c + 2]) \div 16)
                ELSE IF q = 1 THEN
                    (B64Value(str[c + 2]) % 16) * 16 + (B64Value(str[c + 3]) \div 4)
                ELSE (B64Value(str[c + 3]) % 4) * 64 + B64Value(str[c + 4])]

(***************************************************************************)
(* The codec (pwstore.py:119-148).                                         *)
(***************************************************************************)
\* key[i % len(key)], with i counted from 0
KeyAt(key, i) == key[(i % Len(key)) + 1]

\* pw_encode with the key never advanced: key[0] for every character
pw_encode_first_key_char(key, clear) ==
    LET enc == [i \in 1..Len(clear) |-> (clear[i] + KeyAt(key, 0)) % 256]
    IN  B64Encode(Utf8Encode(enc))

pw_encode(key, clear) ==
    LET enc == [i \in 1..Len(clear) |-> (clear[i] + KeyAt(key, i - 1)) % 256]
    IN  B64Encode(Utf8Encode(enc))

\* pw_decode without the 256 that keeps the difference from going below 0
pw_decode_no_wrap(key, enc) ==
    LET raw == Utf8Decode(B64Decode(enc))
        Minus(a, b) == IF a >= b THEN a - b ELSE b - a
    IN  [i \in 1..Len(raw) |-> Minus(raw[i], KeyAt(key, i - 1)) % 256]

pw_decode(key, enc) ==
    LET raw == Utf8Decode(B64Decode(enc))
    IN  [i \in 1..Len(raw) |-> ((256 + raw[i]) - KeyAt(key, i - 1)) % 256]

(***************************************************************************)
(* Text constants of the program and the inputs the model draws.           *)
(***************************************************************************)
\* the key '_serial' of the counter (pwstore.py:247)
SerialKey == << 95, 115, 101, 114, 105, 97, 108 >>

\* an option that was not given: argparse leaves it None
None == << 1114112 >>

\* str(None) == 'None'
NoneStr == << 78, 111, 110, 101 >>

\* str(x) of an optional argument (pwstore.py:352)
Str(x) == IF x = None THEN NoneStr ELSE x

\* the truth value Python gives an optional str argument
Truthy(x) == x # None /\ x # << >>

\* getpass.getpass() interrupted (Ctrl-C) instead of returning a str
Interrupt == << 1114113 >>

\* hashlib.sha256(bytes(passphrase, 'utf-8')).hexdigest() for "", "pw", "pw16"
Sha256Hex(passphrase) ==
    CASE passphrase = << >> ->
        \* e3b0c44298fc1c149afbf4c8996fb92427ae41e4649b934ca495991b7852b855
        << 101, 51, 98, 48, 99, 52, 52, 50, 57, 56, 102, 99, 49, 99, 49, 52,
           57, 97, 102, 98, 102, 52, 99, 56, 57, 57, 54, 102, 98, 57, 50, 52,
           50, 55, 97, 101, 52, 49, 101, 52, 54, 52, 57, 98, 57, 51, 52, 99,
           97, 52, 57, 53, 57, 57, 49, 98, 55, 56, 53, 50, 98, 56, 53, 53 >>
      [] passphrase = << 112, 119 >> ->
        \* 30c952fab122c3f9759f02a6d95c3758b246b4fee239957b2d4fee46e26170c4
        << 51, 48, 99, 57, 53, 50, 102, 97, 98, 49, 50, 50, 99, 51, 102, 57,
           55, 53, 57, 102, 48, 50, 97, 54, 100, 57, 53, 99, 51, 55, 53, 56,
           98, 50, 52, 54, 98, 52, 102, 101, 101, 50, 51, 57, 57, 53, 55, 98,
           50, 100, 52, 102, 101, 101, 52, 54, 101, 50, 54, 49, 55, 48, 99, 52 >>
      [] passphrase = << 112, 119, 49, 54 >> ->
        \* 3596e323428f7c2463df469ac44f463beb4063c8dbbf0feab41a83fbffbf2aeb
        << 51, 53, 57, 54, 101, 51, 50, 51, 52, 50, 56, 102, 55, 99, 50, 52,
           54, 51, 100, 102, 52, 54, 57, 97, 99, 52, 52, 102, 52, 54, 51, 98,
           101, 98, 52, 48, 54, 51, 99, 56, 100, 98, 98, 102, 48, 102, 101, 97,
           98, 52, 49, 97, 56, 51, 102, 98, 102, 102, 98, 102, 50, 97, 101, 98 >>

(***************************************************************************)
(* State.                                                                  *)
(***************************************************************************)
VARIABLES
    MASTER,       \* the global MASTER: the session key
    s,            \* the shelf: SerialKey |-> int, every other key |-> Entry
    clock,        \* what datetime.datetime.now() returns next
    pc,           \* "prompt": the console waits for a line; "output": the
                  \* console has run one; "argv": a process started with a
                  \* command on its command line is about to run it;
                  \* "getpass", "argv_getpass": a command of the console, of
                  \* the command line, waits at its 'Password: ' prompt, the
                  \* shelf open; "exited": the process has ended
    last,         \* the command that ran last, or is under way, and what it
                  \* printed
    added,        \* history: serial, context, username, note and key of
                  \* each add that stored an entry, in order, and the last
                  \* --new_note an update of that entry was given
    family,       \* the family of inputs the user's command lines come from
    dbm,          \* the dbm module shelve.open finds on this build
    procs,        \* the processes that run commands on the database file:
                  \* where each is in its command, what it holds and the
                  \* database as its open shelf shows it.  Process 1 is the
                  \* session that pc and last describe
    cx            \* a codec call on its own: key, plaintext and results

storeVars == << MASTER, s, clock, pc, last, added, family, dbm, procs >>

vars == << storeVars, cx >>

(***************************************************************************)
(* The inputs.  The command lines of one behaviour come from one family:   *)
(*   "match"  a context inside another one, probes for a context equal to  *)
(*            a username and for a context in capitals;                    *)
(*   "case"   contexts and usernames that differ in letter case only;      *)
(*   "wide"   a context outside Latin-1;                                   *)
(*   "fields" one context, two usernames, every combination of the new     *)
(*            values of update, empty usernames included;                  *)
(*   "notes"  one context and username, with and without --note, and an    *)
(*            empty --new_note;                                            *)
(*   "rename" one context, two usernames, and an update that gives one     *)
(*            entry the username of the other;                             *)
(*   "nopass" one context and username, after an empty master password;    *)
(*   "argv"   one context and username, the program started with a command  *)
(*            on its command line or without one.                          *)
(***************************************************************************)
Families ==
    { "match", "case", "wide", "fields", "notes", "rename", "nopass", "argv" }

\* how the program is started (main, pwstore.py:510): without arguments it
\* is the console, with arguments it runs that one command and returns
StartModes == IF family = "argv" THEN { "prompt", "argv" } ELSE { "prompt" }

\* what the user types at the 'Master password: ' prompt: "pw", or nothing
Passphrases == IF family = "nopass" THEN { << >> } ELSE { << 112, 119 >> }

\* "ab", "xaby"; "ab", "AB"; U+0101; "ab"
AddContexts ==
    CASE family = "match" -> { << 97, 98 >>, << 120, 97, 98, 121 >> }
      [] family = "case" -> { << 97, 98 >>, << 65, 66 >> }
      [] family = "wide" -> { << 257 >> }
      [] OTHER -> { << 97, 98 >> }

\* "u", "U"; "u", "v"; "u"
AddUsernames ==
    CASE family = "case" -> { << 117 >>, << 85 >> }
      [] family \in { "fields", "rename" } -> { << 117 >>, << 118 >> }
      [] OTHER -> { << 117 >> }

\* --note absent, or "work"
AddNotes ==
    IF family = "notes" THEN { None, << 119, 111, 114, 107 >> } ELSE { None }

\* what the user types at the 'Password: ' prompt of add: "p", or Ctrl-C
AddTyped == { << 112 >>, Interrupt }

\* contexts given to get / remove / update: those of add, and in "match" a
\* username ("u") and "AB"
ProbeContexts ==
    IF family = "match" THEN AddContexts \cup { << 117 >>, << 65, 66 >> }
    ELSE AddContexts

\* --username of remove / update: absent, "u", "v", "w", "U", ""
ProbeUsernames ==
    CASE family = "fields" -> { None, << 117 >>, << 118 >>, << 119 >>, << >> }
      [] family = "case" -> { None, << 117 >>, << 85 >> }
      [] family = "rename" -> { None, << 117 >>, << 118 >> }
      [] OTHER -> { None, << 117 >> }

\* --new_username of update: absent, "w", "", "v"
NewUsernames ==
    CASE family = "fields" -> { None, << 119 >>, << >> }
      [] family = "rename" -> { None, << 118 >> }
      [] OTHER -> { None }

\* --new_note of update: absent, "personal", ""
NewNotes ==
    CASE family = "fields" -> { None, << 112, 101, 114, 115, 111, 110, 97, 108 >> }
      [] family = "notes" ->
             { None, << 112, 101, 114, 115, 111, 110, 97, 108 >>, << >> }
      [] OTHER -> { None }

\* --new_password of update: absent or given (its value is never used)
NewPasswords == IF family = "fields" THEN { None, << 120 >> } ELSE { None }

\* what the user types at the prompt of update --new_password: "q", or Ctrl-C
UpdateTyped == { << 113 >>, Interrupt }

\* the --new_password of the updates of the statement-level specifications
\* ("x"), and what is typed at their prompt ("q", as long as the "p" of add:
\* the pickled entry keeps its size)
GivenPassword == << 120 >>

TypedPassword == << 113 >>

\* a line whose first word names no do_ method of Prompt: "shred --force"
UnknownLines ==
    { << 115, 104, 114, 101, 100, 32, 45, 45, 102, 111, 114, 99, 101 >> }

\* a command the parser rejects: "list" without --force
RejectedLines == { << 108, 105, 115, 116 >> }

\* a line shlex.split cannot split: "add 'ab", with the quote left open
UnbalancedLines == { << 97, 100, 100, 32, 39, 97, 98 >> }

\* "quit", "exit"
QuitLines == { << 113, 117, 105, 116 >>, << 101, 120, 105, 116 >> }

(***************************************************************************)
(* The entry and the address (pwstore.py:264-281, 329, 357).               *)
(***************************************************************************)
\* Entry(context, username, password, note=...): both stamps are taken as
\* the constructor runs
Entry(context, username, password, note) ==
    [context |-> context, username |-> username, password |-> password,
     note |-> Str(note), date_added |-> clock, last_updated |-> clock]

\* '_{}{}__'.format(context, username)
CtxFull_unseparated(context, username) ==
    << Underscore >> \o context \o username \o << Underscore, Underscore >>

\* '_{}_{}__'.format(context, username)
CtxFull(context, username) ==
    << Underscore >> \o context \o << Underscore >> \o username
        \o << Underscore, Underscore >>

\* '_{}_'.format(context)
CtxOnly(context) == << Underscore >> \o context \o << Underscore >>

\* the probe of remove / update: the username joins it only when truthy
ProbeCtx(context, username) ==
    IF Truthy(username) THEN CtxFull(context, username) ELSE CtxOnly(context)

\* '{}__'.format(ctx): the address without the serial
Address_no_serial(serial, ctx) == ctx \o << Underscore, Underscore >>

\* '{}_{}__'.format(serial, ctx): the plaintext of an entry key
Address(serial, ctx) ==
    IntToStr(serial) \o << Underscore >> \o ctx \o << Underscore, Underscore >>

\* list(s.keys()) without '_serial'
Keylist(shelf) == DOMAIN shelf \ { SerialKey }

\* [key for key in keylist if ctx in pw_decode(MASTER, key)]
Matcher_case_sensitive(shelf, ctx) ==
    { key \in Keylist(shelf) : Contains(pw_decode(MASTER, key), ctx) }

\* [key for key in keylist if ctx.lower() in pw_decode(MASTER, key).lower()]
Matcher(shelf, ctx) ==
    { key \in Keylist(shelf) :
        Contains(Lower(pw_decode(MASTER, key)), Lower(ctx)) }

\* str.ljust(width): padded with spaces, never cut
Ljust(str, width) ==
    IF Len(str) >= width THEN str
    ELSE str \o [i \in 1..(width - Len(str)) |-> 32]

\* the keys of keylist in the order s.keys() gives them: the order in which
\* they were first stored, which is the order of the entries' date_added
RECURSIVE KeysInOrder(_, _)
KeysInOrder(shelf, keylist) ==
    IF keylist = {} THEN << >>
    ELSE LET k == CHOOSE x \in keylist :
                     \A y \in keylist :
                        shelf[x].date_added <= shelf[y].date_added
         IN  << k >> \o KeysInOrder(shelf, keylist \ { k })

\* the row pw_pprint prints for the entry under k
Row(shelf, k) ==
    [c |-> Ljust(pw_decode(MASTER, shelf[k].context), 14),
     u |-> Ljust(pw_decode(MASTER, shelf[k].username), 14),
     p |-> Ljust(pw_decode(MASTER, shelf[k].password), 14),
     n |-> Ljust(pw_decode(MASTER, shelf[k].note), 20)]

\* the rows pw_pprint prints: one for each key of keylist, equal rows too
pw_pprint(shelf, keylist) ==
    LET keys == KeysInOrder(shelf, keylist)
    IN  [i \in 1..Len(keys) |-> Row(shelf, keys[i])]

\* what is recorded of a command: its arguments, the branch it took, the
\* keys the matcher returned and the rows printed
Report(op, context, username, args, outcome, res, rows) ==
    [op |-> op, context |-> context, username |-> username, args |-> args,
     outcome |-> outcome, res |-> res, rows |-> rows]

\* the arguments a command has besides context and username
Args(note, new_username, new_note, new_password, typed) ==
    [note |-> note, new_username |-> new_username, new_note |-> new_note,
     new_password |-> new_password, typed |-> typed]

NoArgs == Args(None, None, None, None, None)

NoReport == Report("none", None, None, NoArgs, "none", {}, << >>)

\* the processes
Procs == { 1, 2 }

\* the database file not open: a shelf without keys
NoShelf == [k \in {} |-> 0]

\* no entry read
NoEntry == [context |-> << >>, username |-> << >>, password |-> << >>,
            note |-> << >>, date_added |-> 0, last_updated |-> 0]

\* a process outside its with block: "unused" is add between the check and
\* s[key] = entry, "stored" add between its two writes, "read" update
\* between entry = s[res[0]] and s[res[0]] = entry
IdleProc == [pc |-> "idle", context |-> None, username |-> None,
             note |-> None, serial |-> 0, key |-> None, outcome |-> "none",
             entry |-> NoEntry, view |-> NoShelf]

\* the dbm modules shelve.open may find behind the database file: "gnu"
\* lets one process at a time open the file and writes through; "dumb" gives
\* every process a directory of keys of its own, read when the shelf is
\* opened, appends to the directory file at each new key, reads and writes
\* the values in the data file, a value of the same size over the old one,
\* and writes its directory out when it deletes a key and when it closes a
\* shelf it has written to
Backends == { "gnu", "dumb" }

\* a command may run
Ready == pc \in { "prompt", "argv" }

\* a command waits at its 'Password: ' prompt
AtGetpass == pc \in { "getpass", "argv_getpass" }

\* a command is about to run or under way
Running == Ready \/ AtGetpass

\* where a command that asks for a password waits
Getpass == IF pc = "argv" THEN "argv_getpass" ELSE "getpass"

\* where a command that returns leaves the process: the console goes on,
\* main returns
Returned == IF pc \in { "argv", "argv_getpass" } THEN "exited" ELSE "output"

\* no codec call under way
CodecIdle == [pc |-> "idle", key |-> << >>, clear |-> << >>, enc |-> << >>,
              key2 |-> << >>, dec |-> << >>]

(***************************************************************************)
(* initialize_storge on a new database file (pwstore.py:231-261).          *)
(***************************************************************************)
InitStore ==
    /\ family \in Families
    /\ \E passphrase \in Passphrases : MASTER = Sha256Hex(passphrase)
    /\ s = (SerialKey :> 1)
    /\ clock = 0
    /\ pc \in StartModes
    /\ last = NoReport
    /\ added = << >>
    /\ dbm \in Backends
    /\ procs = [p \in Procs |-> IdleProc]

\* Spec is one session that has the database file to itself: no other
\* process opens it.  Its commands run one after the other, each between
\* its own shelve.open and close, which every dbm module then does alike:
\* Spec runs on dbm.dumb, the module every build has
Init == InitStore /\ dbm = "dumb" /\ cx = CodecIdle

\* the statement-level specifications run on every dbm module
InitProcs == InitStore /\ pc = "prompt" /\ cx = CodecIdle

(***************************************************************************)
(* pws_add (pwstore.py:322-365).                                           *)
(***************************************************************************)
\* s[key] = entry
WriteEntry(shelf, key, entry) ==
    [k \in DOMAIN shelf \cup { key } |-> IF k = key THEN entry ELSE shelf[k]]

\* s['_serial'] = s['_serial'] + 1
AdvanceSerial(shelf) == [shelf EXCEPT ![SerialKey] = @ + 1]

\* the entry stored and the serial left as it was
StoreEntry_serial_kept(shelf, key, entry) == WriteEntry(shelf, key, entry)

\* the two writes of a successful add, in the order they are made
StoreEntry(shelf, key, entry) == AdvanceSerial(WriteEntry(shelf, key, entry))

\* the database file once process p, with '_serial' at serial, has closed the
\* shelf it wrote to: the keys are those of p's view, whatever else the file
\* held
CloseShelf(p, serial) ==
    [k \in DOMAIN procs[p].view |->
        IF k = SerialKey THEN serial ELSE procs[p].view[k]]

\* pws_add up to its prompt (pwstore.py:322-351): the shelf is opened and
\* the pattern looked for; a duplicate ends the command, a new pattern
\* leaves it waiting at getpass.getpass, inside the with block
pws_add(context, username, note) ==
    LET ctx == CtxFull(context, username)
        res == Matcher(s, ctx)
    IN  /\ Ready
        /\ IF res # {} THEN
               /\ last' = Report("add", context, username,
                                 Args(note, None, None, None, None),
                                 "duplicate", res, << >>)
               /\ pc' = Returned
               /\ UNCHANGED procs
           ELSE
               /\ last' = Report("add", context, username,
                                 Args(note, None, None, None, None),
                                 "getpass", res, << >>)
               /\ pc' = Getpass
               /\ procs' = [procs EXCEPT ![1] =
                               [IdleProc EXCEPT
                                   !.pc = "unused", !.context = context,
                                   !.username = username, !.note = note,
                                   !.view = s]]
        /\ UNCHANGED << MASTER, s, clock, added, family, dbm, cx >>

\* pws_add from its prompt on (pwstore.py:351-365): Ctrl-C ends the process
\* and the with block closes the shelf unwritten; a password builds the
\* entry, the key is made from s['_serial'] as the file has it now, the two
\* writes are made and the shelf is closed
pws_add_getpass(typed) ==
    LET context == last.context
        username == last.username
        note == last.args.note
        args == Args(note, None, None, None, typed)
        entry == Entry(pw_encode(MASTER, context),
                       pw_encode(MASTER, username),
                       pw_encode(MASTER, typed),
                       pw_encode(MASTER, Str(note)))
        key == pw_encode(MASTER,
                         Address(s[SerialKey], CtxFull(context, username)))
    IN  /\ AtGetpass
        /\ last.op = "add"
        /\ IF typed = Interrupt THEN
               /\ last' = Report("add", context, username, args,
                                 "interrupted", last.res, << >>)
               /\ pc' = "exited"
               /\ UNCHANGED << s, clock, added >>
           ELSE
               /\ Len(added) < MaxAdds
               /\ s' = StoreEntry(CloseShelf(1, s[SerialKey]), key, entry)
               /\ clock' = clock + 1
               /\ added' = Append(added,
                            [serial |-> s[SerialKey], context |-> context,
                             username |-> username, key |-> key,
                             note |-> note, new_note |-> None])
               /\ last' = Report("add", context, username, args,
                                 "added", last.res, << >>)
               /\ pc' = Returned
        /\ procs' = [procs EXCEPT ![1] = IdleProc]
        /\ UNCHANGED << MASTER, family, dbm, cx >>

(***************************************************************************)
(* pws_remove (pwstore.py:368-401).                                        *)
(***************************************************************************)
\* pws_remove deleting res[0] whatever len(res) is, when there is a match
pws_remove_first_of_many(context, username) ==
    LET ctx == ProbeCtx(context, username)
        res == Matcher(s, ctx)
    IN  /\ Ready
        /\ IF Cardinality(res) = 0 THEN
               /\ last' = Report("remove", context, username, NoArgs,
                                 "notfound", res, << >>)
               /\ s' = s
           ELSE
               /\ last' = Report("remove", context, username, NoArgs,
                                 IF Cardinality(res) > 1 THEN "ambiguous"
                                 ELSE "removed", res, << >>)
               /\ s' = [k \in DOMAIN s \ { CHOOSE r \in res : TRUE } |-> s[k]]
        /\ pc' = Returned
        /\ UNCHANGED << MASTER, clock, added, family, dbm, procs, cx >>

pws_remove(context, username) ==
    LET ctx == ProbeCtx(context, username)
        res == Matcher(s, ctx)
    IN  /\ Ready
        /\ IF Cardinality(res) > 1 THEN
               /\ last' = Report("remove", context, username, NoArgs,
                                 "ambiguous", res, << >>)
               /\ s' = s
           ELSE IF Cardinality(res) = 0 THEN
               /\ last' = Report("remove", context, username, NoArgs,
                                 "notfound", res, << >>)
               /\ s' = s
           ELSE
               /\ last' = Report("remove", context, username, NoArgs,
                                 "removed", res, << >>)
               /\ s' = [k \in DOMAIN s \ res |-> s[k]]
        /\ pc' = Returned
        /\ UNCHANGED << MASTER, clock, added, family, dbm, procs, cx >>

(***************************************************************************)
(* pws_update (pwstore.py:404-450).                                        *)
(***************************************************************************)
\* the entry rebuilt by Entry(...), which stamps date_added anew
UpdatedEntry_restamped(entry, new_username, new_note, new_password, typed) ==
    [entry EXCEPT
        !.username = IF Truthy(new_username)
                     THEN pw_encode(MASTER, new_username) ELSE @,
        !.note = IF Truthy(new_note) THEN pw_encode(MASTER, new_note) ELSE @,
        !.password = IF Truthy(new_password)
                     THEN pw_encode(MASTER, typed) ELSE @,
        !.date_added = clock,
        !.last_updated = clock]

\* the entry of a unique match after the requested fields are replaced
UpdatedEntry(entry, new_username, new_note, new_password, typed) ==
    [entry EXCEPT
        !.username = IF Truthy(new_username)
                     THEN pw_encode(MASTER, new_username) ELSE @,
        !.note = IF Truthy(new_note) THEN pw_encode(MASTER, new_note) ELSE @,
        !.password = IF Truthy(new_password)
                     THEN pw_encode(MASTER, typed) ELSE @,
        !.last_updated = clock]

\* the history after an update of the entry under key: the --new_note it
\* was given, if any, is remembered with the add that stored the entry
NotedUpdate(log, key, new_note) ==
    [i \in 1..Len(log) |->
        IF log[i].key = key /\ new_note # None
        THEN [log[i] EXCEPT !.new_note = new_note] ELSE log[i]]

\* pws_update up to its prompt, or to its end when --new_password is not
\* given (pwstore.py:404-450).  The new values are drawn where the code
\* first reads them: after the match.  With --new_password the command
\* waits at getpass.getpass, inside the with block, the entry read
pws_update(context, username) ==
    LET ctx == ProbeCtx(context, username)
        res == Matcher(s, ctx)
        key == CHOOSE k \in res : TRUE
    IN  /\ Ready
        /\ IF Cardinality(res) > 1 THEN
               /\ last' = Report("update", context, username, NoArgs,
                                 "ambiguous", res, << >>)
               /\ pc' = Returned
               /\ UNCHANGED << s, clock, added, procs >>
           ELSE IF Cardinality(res) = 0 THEN
               /\ last' = Report("update", context, username, NoArgs,
                                 "notfound", res, << >>)
               /\ pc' = Returned
               /\ UNCHANGED << s, clock, added, procs >>
           ELSE
               \E new_username \in NewUsernames, new_note \in NewNotes,
                  new_password \in NewPasswords :
                  LET args == Args(None, new_username, new_note, new_password,
                                   None)
                  IN  IF Truthy(new_password) THEN
                          /\ last' = Report("update", context, username, args,
                                            "getpass", res, << >>)
                          /\ pc' = Getpass
                          /\ procs' = [procs EXCEPT ![1] =
                                          [IdleProc EXCEPT
                                              !.pc = "read", !.key = key,
                                              !.entry = s[key], !.view = s]]
                          /\ UNCHANGED << s, clock, added >>
                      ELSE
                          /\ clock - Len(added) < MaxUpdates
                          /\ s' = WriteEntry(s, key,
                                     UpdatedEntry(s[key], new_username,
                                                  new_note, new_password, None))
                          /\ clock' = clock + 1
                          /\ added' = NotedUpdate(added, key, new_note)
                          /\ last' = Report("update", context, username, args,
                                            "updated", res, << >>)
                          /\ pc' = Returned
                          /\ UNCHANGED procs
        /\ UNCHANGED << MASTER, family, dbm, cx >>

\* pws_update from its prompt on (pwstore.py:443-450): Ctrl-C ends the
\* process, the shelf unwritten; a password completes the entry that was
\* read before the prompt, s[res[0]] = entry writes it and the shelf is
\* closed
pws_update_getpass(typed) ==
    LET a == last.args
        args == Args(None, a.new_username, a.new_note, a.new_password, typed)
        key == procs[1].key
    IN  /\ AtGetpass
        /\ last.op = "update"
        /\ IF typed = Interrupt THEN
               /\ last' = Report("update", last.context, last.username, args,
                                 "interrupted", last.res, << >>)
               /\ pc' = "exited"
               /\ UNCHANGED << s, clock, added >>
           ELSE
               /\ clock - Len(added) < MaxUpdates
               /\ s' = WriteEntry(CloseShelf(1, s[SerialKey]), key,
                          UpdatedEntry(procs[1].entry, a.new_username,
                                       a.new_note, a.new_password, typed))
               /\ clock' = clock + 1
               /\ added' = NotedUpdate(added, key, a.new_note)
               /\ last' = Report("update", last.context, last.username, args,
                                 "updated", last.res, << >>)
               /\ pc' = Returned
        /\ procs' = [procs EXCEPT ![1] = IdleProc]
        /\ UNCHANGED << MASTER, family, dbm, cx >>

(***************************************************************************)
(* pws_get and pws_list (pwstore.py:453-488).                              *)
(***************************************************************************)
pws_get(context) ==
    LET res == Matcher(s, CtxOnly(context))
    IN  /\ Ready
        /\ IF Cardinality(res) = 0
           THEN last' = Report("get", context, None, NoArgs, "notfound", res, << >>)
           ELSE last' = Report("get", context, None, NoArgs, "shown", res,
                               pw_pprint(s, res))
        /\ pc' = Returned
        /\ UNCHANGED << MASTER, s, clock, added, family, dbm, procs, cx >>

pws_list ==
    LET keylist == Keylist(s)
    IN  /\ Ready
        /\ last' = Report("list", None, None, NoArgs, "listed", keylist,
                          pw_pprint(s, keylist))
        /\ pc' = Returned
        /\ UNCHANGED << MASTER, s, clock, added, family, dbm, procs, cx >>

\* pws_shred (pwstore.py:491-499): `raise NotImplemented` is all it does;
\* the exception ends the process and the shelf is never opened.  Prompt has
\* no do_shred: the function runs from the command line only
pws_shred ==
    /\ pc = "argv"
    /\ last' = Report("shred", None, None, NoArgs, "raised", {}, << >>)
    /\ pc' = "exited"
    /\ UNCHANGED << MASTER, s, clock, added, family, dbm, procs, cx >>

\* the command loop reads the next line (Prompt.cmdloop)
Prompt ==
    /\ pc = "output"
    /\ pc' = "prompt"
    /\ last' = NoReport
    /\ UNCHANGED << MASTER, s, clock, added, family, dbm, procs, cx >>

\* Prompt.default (pwstore.py:50-52): the line is no command of the console;
\* 'Error: command not recognized.' and the console goes on
default(line) ==
    /\ pc = "prompt"
    /\ last' = Report("default", line, None, NoArgs, "unrecognized", {}, << >>)
    /\ pc' = "output"
    /\ UNCHANGED << MASTER, s, clock, added, family, dbm, procs, cx >>

\* parser.parse_args refuses the arguments: it prints the usage and raises
\* SystemExit, which the do_ methods of the console catch and main does not
parse_args_error(line) ==
    /\ Ready
    /\ last' = Report("parse_args", line, None, NoArgs, "usage", {}, << >>)
    /\ pc' = Returned
    /\ UNCHANGED << MASTER, s, clock, added, family, dbm, procs, cx >>

\* shlex.split raises ValueError before the try of a do_ method
\* (pwstore.py:56): the console ends
shlex_error(line) ==
    /\ pc = "prompt"
    /\ last' = Report("shlex", line, None, NoArgs, "raised", {}, << >>)
    /\ pc' = "exited"
    /\ UNCHANGED << MASTER, s, clock, added, family, dbm, procs, cx >>

\* do_quit, and do_exit which calls it (pwstore.py:110-116): 'Quitting.' and
\* SystemExit
do_quit(line) ==
    /\ pc = "prompt"
    /\ last' = Report("quit", line, None, NoArgs, "quit", {}, << >>)
    /\ pc' = "exited"
    /\ UNCHANGED << MASTER, s, clock, added, family, dbm, procs, cx >>

\* main (pwstore.py:502-516) started again on the database file there is:
\* initialize_storge finds '_serial' and leaves it, and asks for the master
\* password
main ==
    /\ pc = "exited"
    /\ \E passphrase \in Passphrases : MASTER' = Sha256Hex(passphrase)
    /\ pc' \in StartModes
    /\ last' = NoReport
    /\ UNCHANGED << s, clock, added, family, dbm, procs, cx >>

Next ==
    \/ \E c \in AddContexts, u \in AddUsernames, n \in AddNotes : pws_add(c, u, n)
    \/ \E typed \in AddTyped : pws_add_getpass(typed)
    \/ \E c \in ProbeContexts, u \in ProbeUsernames : pws_remove(c, u)
    \/ \E c \in ProbeContexts, u \in ProbeUsernames : pws_update(c, u)
    \/ \E typed \in UpdateTyped : pws_update_getpass(typed)
    \/ \E c \in ProbeContexts : pws_get(c)
    \/ pws_list
    \/ pws_shred
    \/ \E line \in UnknownLines : default(line)
    \/ \E line \in RejectedLines : parse_args_error(line)
    \/ \E line \in UnbalancedLines : shlex_error(line)
    \/ \E line \in QuitLines : do_quit(line)
    \/ Prompt
    \/ main

Spec == Init /\ [][Next]_vars

(***************************************************************************)
(* Properties of the store under Spec.                                     *)
(***************************************************************************)
\* every code point of str is in 0..255
Latin1(str) == \A i \in 1..Len(str) : str[i] <= 255

\* str has no '_'
NoUnderscore(str) == \A i \in 1..Len(str) : str[i] # Underscore

\* the adds whose entry is stored under one of keys
AddsOf(keys) == { i \in 1..Len(added) : added[i].key \in keys }

\* the decoded fields of the entry stored under k
ContextOf(shelf, k) == pw_decode(MASTER, shelf[k].context)

UsernameOf(shelf, k) == pw_decode(MASTER, shelf[k].username)

\* C1: the serial starts at 1, never decreases, is 1 + the number of adds
\* that succeeded so far, and no serial builds the key of two entries, also
\* after removals
C1_SerialMonotone ==
    /\ [](/\ s[SerialKey] = Len(added) + 1
          /\ \A i, j \in 1..Len(added) :
                i # j => added[i].serial # added[j].serial)
    /\ [][s'[SerialKey] >= s[SerialKey]]_vars

\* an entry was added, removed and added again: the second key has serial 2
C1_Witness ==
    /\ Len(added) = 2
    /\ added[1].context = added[2].context
    /\ added[1].username = added[2].username
    /\ added[1].key \notin DOMAIN s
    /\ added[2].key \in DOMAIN s
    /\ added[2].serial = 2
    /\ s[SerialKey] = 3

\* C2 as claimed: for stored entries without '_' in context and username, a
\* context-only probe returns a key only if the entry was stored with that
\* context (compared case-insensitively), and a full probe only if context
\* and username both are equal
C2_BoundaryCorrect ==
    (pc \in { "output", "exited" } /\ last.op \in { "get", "remove", "update" })
        => \A i \in AddsOf(last.res) :
              (NoUnderscore(added[i].context) /\ NoUnderscore(added[i].username))
                  => /\ Lower(added[i].context) = Lower(last.context)
                     /\ Truthy(last.username)
                            => Lower(added[i].username) = Lower(last.username)

\* C3 as claimed: remove and update change the store only on a unique match
\* and then change that key only; with two entries of one context and
\* different usernames, remove(context) reports the ambiguity and changes
\* nothing, and remove(context, username) deletes exactly the entry that has
\* that username
C3_Disambiguation ==
    [][(Running /\ last'.op \in { "remove", "update" })
          => /\ s' # s
                    => /\ Cardinality(last'.res) = 1
                       /\ \A k \in (DOMAIN s \cup DOMAIN s') \ last'.res :
                             k \in DOMAIN s /\ k \in DOMAIN s' /\ s'[k] = s[k]
             /\ \A k1, k2 \in Keylist(s) :
                   (/\ k1 # k2
                    /\ ContextOf(s, k1) = last'.context
                    /\ ContextOf(s, k2) = last'.context
                    /\ UsernameOf(s, k1) # UsernameOf(s, k2)
                    /\ last'.op = "remove")
                       => /\ last'.username = None
                              => (last'.outcome = "ambiguous" /\ s' = s)
                          /\ last'.username = UsernameOf(s, k1)
                              => DOMAIN s' = DOMAIN s \ { k1 }]_vars

\* C4: a command that reports a duplicate, no match or an ambiguous match
\* leaves the shelf as it was, serial included, and returns: the console
\* goes on, a command of the command line ends without an exception
C4_FailureLeavesStore ==
    [][(Ready
        /\ last'.outcome \in { "duplicate", "notfound", "ambiguous" })
          => (s' = s /\ pc' = Returned)]_vars

\* update without a username has reported two matches; both are stored
C4_Witness ==
    /\ pc = "output"
    /\ last.op = "update"
    /\ last.username = None
    /\ last.outcome = "ambiguous"
    /\ Cardinality(last.res) = 2
    /\ last.res \subseteq DOMAIN s

\* C7: an update that succeeds keeps the keys of the shelf, the serial, every
\* other entry, and the matched entry's context and date_added; a field whose
\* new value was not given keeps its encoding, a field that changes holds the
\* encoding of the value given, and last_updated is the time of the update
C7_UpdateFrame ==
    [][(Running /\ last'.op = "update" /\ last'.outcome = "updated")
          => \E k \in last'.res :
                LET a == last'.args
                    old == s[k]
                    new == s'[k]
                IN  /\ last'.res = { k }
                    /\ DOMAIN s' = DOMAIN s
                    /\ \A j \in DOMAIN s \ { k } : s'[j] = s[j]
                    /\ new.context = old.context
                    /\ new.date_added = old.date_added
                    /\ new.last_updated = clock
                    /\ new.last_updated >= old.last_updated
                    /\ new.username = IF Truthy(a.new_username)
                                      THEN pw_encode(MASTER, a.new_username)
                                      ELSE old.username
                    /\ new.note = IF Truthy(a.new_note)
                                  THEN pw_encode(MASTER, a.new_note)
                                  ELSE old.note
                    /\ new.password = IF Truthy(a.new_password)
                                      THEN pw_encode(MASTER, a.typed)
                                      ELSE old.password]_vars

\* update --new_note has replaced the note of one of two entries and left
\* its username, its password and the other entry alone
C7_Witness ==
    /\ pc = "output"
    /\ last.op = "update"
    /\ last.outcome = "updated"
    /\ Truthy(last.args.new_note)
    /\ last.args.new_username = None
    /\ last.args.new_password = None
    /\ Cardinality(Keylist(s)) = 2
    /\ \E k \in last.res :
          /\ pw_decode(MASTER, s[k].note) = last.args.new_note
          /\ s[k].last_updated > s[k].date_added

\* C8 as claimed: while the entry of add(c, u) is stored, an add whose
\* context and username differ from c and u in letter case at most is
\* rejected as a duplicate and changes nothing
C8_DuplicateAnyText ==
    [][(/\ Running
        /\ last'.op = "add"
        /\ \E i \in AddsOf(DOMAIN s) :
              /\ Lower(added[i].context) = Lower(last'.context)
              /\ Lower(added[i].username) = Lower(last'.username))
          => (last'.outcome = "duplicate" /\ s' = s)]_vars

\* C8 as amended: add is rejected as a duplicate, and changes nothing,
\* whenever a stored key decodes to an address that contains the probe in
\* any letter case; so it is while the entry of add(c, u) is stored, for c
\* and u of code points 0..255 and an add that differs in letter case at most
C8_DuplicateRejected ==
    [][(Running /\ last'.op = "add")
          => /\ Matcher(s, CtxFull(last'.context, last'.username)) # {}
                    => (last'.outcome = "duplicate" /\ s' = s)
             /\ (\E i \in AddsOf(DOMAIN s) :
                    /\ Latin1(added[i].context)
                    /\ Latin1(added[i].username)
                    /\ Lower(added[i].context) = Lower(last'.context)
                    /\ Lower(added[i].username) = Lower(last'.username))
                    => (last'.outcome = "duplicate" /\ s' = s)]_vars

\* ("ab", "u") is stored and add("AB", "U") has been rejected
C8_Witness ==
    /\ pc = "output"
    /\ last.op = "add"
    /\ last.outcome = "duplicate"
    /\ last.context = << 65, 66 >>
    /\ last.username = << 85 >>
    /\ \E i \in AddsOf(DOMAIN s) :
          added[i].context = << 97, 98 >> /\ added[i].username = << 117 >>

(***************************************************************************)
(* Properties of the entries, the matcher and the session under Spec.      *)
(***************************************************************************)
\* C12 as claimed: the note of every stored entry is a string, and the
\* entry of an add without --note, not given a note since, has the note ""
C12_NoteDefault ==
    \A i \in AddsOf(DOMAIN s) :
       LET entry == s[added[i].key]
       IN  /\ entry.note # None
           /\ (added[i].note = None /\ added[i].new_note = None)
                  => pw_decode(MASTER, entry.note) = << >>

\* C13 as claimed: get, and remove and update without --username, return the
\* key of every stored entry that was added with the probed context in any
\* letter case; get prints a row for every key returned and reports no
\* result only when none is returned
C13_MatchesAnyText ==
    [][(/\ Running
        /\ last'.op \in { "get", "remove", "update" }
        /\ last'.username = None)
          => /\ \A i \in AddsOf(DOMAIN s) :
                   Lower(added[i].context) = Lower(last'.context)
                       => added[i].key \in last'.res
             /\ last'.op = "get"
                    => /\ last'.outcome = "notfound" <=> last'.res = {}
                       /\ Len(last'.rows) = Cardinality(last'.res)
                       /\ \A k \in last'.res :
                             \E i \in 1..Len(last'.rows) :
                                last'.rows[i] = Row(s, k)]_vars

\* C13 as amended: the same for entries added with a context of code points
\* 0..255
C13_MatcherComplete ==
    [][(/\ Running
        /\ last'.op \in { "get", "remove", "update" }
        /\ last'.username = None)
          => /\ \A i \in AddsOf(DOMAIN s) :
                   (/\ Latin1(added[i].context)
                    /\ Lower(added[i].context) = Lower(last'.context))
                       => added[i].key \in last'.res
             /\ last'.op = "get"
                    => /\ last'.outcome = "notfound" <=> last'.res = {}
                       /\ Len(last'.rows) = Cardinality(last'.res)
                       /\ \A k \in last'.res :
                             \E i \in 1..Len(last'.rows) :
                                last'.rows[i] = Row(s, k)]_vars

\* ("ab", "u") is stored and get("AB") has printed it
C13_Witness ==
    /\ pc = "output"
    /\ last.op = "get"
    /\ last.context = << 65, 66 >>
    /\ last.outcome = "shown"
    /\ Len(last.rows) = 1
    /\ \E i \in AddsOf(last.res) : added[i].context = << 97, 98 >>

\* C14 as claimed: on a store that was empty, after add(c, u, note=n), and
\* updates of the note only, get(c) prints one row, with username u and the
\* note given last (n, or the m of update --new_note m), as long as the entry
\* is stored, and reports no result once it is removed
C14_EndToEnd ==
    (/\ pc \in { "output", "exited" }
     /\ last.op = "get"
     /\ Len(added) = 1
     /\ added[1].note # None
     /\ last.context = added[1].context)
        => LET a == added[1]
               note == IF a.new_note # None THEN a.new_note ELSE a.note
           IN  IF a.key \in DOMAIN s
               THEN /\ last.outcome = "shown"
                    /\ Len(last.rows) = 1
                    /\ \A i \in 1..Len(last.rows) :
                          /\ last.rows[i].u = Ljust(a.username, 14)
                          /\ last.rows[i].n = Ljust(note, 20)
               ELSE last.outcome = "notfound"

\* C15: an add that succeeds stores one entry under a key that was not there,
\* leaves every other entry alone and advances the serial by one; a remove
\* that succeeds takes one entry away; nothing else changes the number of
\* entries or the serial (so the entries are serial - 1 less the removes),
\* and every key holds the entry of exactly one add
C15_AddEffect ==
    /\ [](/\ Cardinality(Keylist(s)) = Cardinality(AddsOf(DOMAIN s))
          /\ Cardinality(Keylist(s)) <= s[SerialKey] - 1)
    /\ [][Running
            => IF last'.op = "add" /\ last'.outcome = "added"
               THEN LET k == added'[Len(added')].key
                    IN  /\ k \notin DOMAIN s
                        /\ DOMAIN s' = DOMAIN s \cup { k }
                        /\ \A j \in Keylist(s) : s'[j] = s[j]
                        /\ s'[SerialKey] = s[SerialKey] + 1
               ELSE /\ s'[SerialKey] = s[SerialKey]
                    /\ Cardinality(Keylist(s')) =
                          IF last'.outcome = "removed"
                          THEN Cardinality(Keylist(s)) - 1
                          ELSE Cardinality(Keylist(s))]_vars

\* a second entry has just been added next to the first
C15_Witness ==
    /\ pc = "output"
    /\ last.op = "add"
    /\ last.outcome = "added"
    /\ Cardinality(Keylist(s)) = 2
    /\ s[SerialKey] = 3

\* C16 as claimed: with an empty master password no session is set up: no
\* command runs and nothing is stored under the key derived from it
C16_FailClosed ==
    MASTER = Sha256Hex(<< >>)
        => /\ last.op \notin { "add", "remove", "update", "get", "list" }
           /\ Keylist(s) = {}

\* C17 as claimed: after shred the shelf holds '_serial' = 1 and nothing else
C17_ShredResets ==
    last.op = "shred" => s = (SerialKey :> 1)

\* C18 as claimed: the key of every stored entry decodes to the address of
\* the entry's own context and username, as its fields decode now
C18_KeyMatchesEntry ==
    \A i \in AddsOf(DOMAIN s) :
       LET k == added[i].key
       IN  pw_decode(MASTER, k) =
              Address(added[i].serial,
                      CtxFull(ContextOf(s, k), UsernameOf(s, k)))

\* C19 as claimed, for entries added from text of code points 0..255: no two
\* stored entries have the same context and username, compared without
\* regard to letter case
C19_IdentityUnique ==
    \A i, j \in AddsOf(DOMAIN s) :
       (/\ i # j
        /\ Latin1(added[i].context) /\ Latin1(added[i].username)
        /\ Latin1(added[j].context) /\ Latin1(added[j].username))
           => ~ (/\ Lower(ContextOf(s, added[i].key))
                       = Lower(ContextOf(s, added[j].key))
                 /\ Lower(UsernameOf(s, added[i].key))
                       = Lower(UsernameOf(s, added[j].key)))

\* C20 as claimed: remove and update probe with the username whenever one is
\* given, "" included, and an update that succeeds leaves the username and
\* the note it was given, "" included, in the entry
C20_EmptyHonoured ==
    [][(Running /\ last'.op \in { "remove", "update" })
          => /\ last'.username # None
                    => last'.res =
                          Matcher(s, CtxFull(last'.context, last'.username))
             /\ last'.outcome = "updated"
                    => \A k \in last'.res :
                          /\ last'.args.new_username # None
                                => UsernameOf(s', k) = last'.args.new_username
                          /\ last'.args.new_note # None
                                => pw_decode(MASTER, s'[k].note)
                                      = last'.args.new_note]_vars

(***************************************************************************)
(* The commands one statement at a time (pwstore.py:331-362, 375-400,      *)
(* 411-448), by processes that have opened the same database file under    *)
(* the same master password.  The code takes no lock of its own; what two  *)
(* processes see of each other is what the dbm module behind the shelf     *)
(* lets them see.  Here s is the database as a process that opens the file *)
(* now reads it, and the view of a process is the database as its open     *)
(* shelf shows it.  The password typed at add is always "p"; update is     *)
(* always update --new_password.                                           *)
(***************************************************************************)
\* the processes that are between shelve.open and the end of the with block
\* of add
InAdd == { p \in Procs : procs[p].pc \in { "unused", "stored" } }

\* the processes that passed the check and have not stored their entry yet
Unused == { p \in Procs : procs[p].pc = "unused" }

\* the processes that have read the entry to update and not written it yet
Reading == { p \in Procs : procs[p].pc = "read" }

\* the processes that have the shelf open
Open == InAdd \cup Reading

\* with shelve.open(DB) as s, the keylist and the check for the pattern; a
\* duplicate ends the with block of a shelf that was only read
AddCheck(p, context, username, note) ==
    LET res == Matcher(s, CtxFull(context, username))
    IN  /\ procs[p].pc = "idle"
        /\ dbm = "gnu" => Open = {}
        /\ res = {} => Len(added) + Cardinality(Unused) < MaxAdds
        /\ procs' = [procs EXCEPT ![p] =
                        [IdleProc EXCEPT
                            !.pc = IF res # {} THEN "idle" ELSE "unused",
                            !.context = context, !.username = username,
                            !.note = note,
                            !.outcome = IF res # {} THEN "duplicate"
                                        ELSE "none",
                            !.view = IF res # {} THEN NoShelf ELSE s]]
        /\ UNCHANGED << MASTER, s, clock, pc, last, added, family, dbm, cx >>

\* shelve.open raises (pwstore.py:331, 375, 411): dbm.gnu finds the file
\* locked by the process that has it open, and the exception ends this
\* process
OpenFails(p) ==
    /\ procs[p].pc = "idle"
    /\ dbm = "gnu"
    /\ Open \ { p } # {}
    /\ procs' = [procs EXCEPT ![p] = [IdleProc EXCEPT !.pc = "exited"]]
    /\ UNCHANGED << MASTER, s, clock, pc, last, added, family, dbm, cx >>

\* the entry is built, the key is made from s['_serial'] as the file has it
\* now, and s[key] = entry: into the view and into the file
AddStore(p) ==
    LET me == procs[p]
        entry == Entry(pw_encode(MASTER, me.context),
                       pw_encode(MASTER, me.username),
                       pw_encode(MASTER, << 112 >>),
                       pw_encode(MASTER, Str(me.note)))
        key == pw_encode(MASTER,
                         Address(s[SerialKey], CtxFull(me.context, me.username)))
    IN  /\ me.pc = "unused"
        /\ s' = WriteEntry(s, key, entry)
        /\ clock' = clock + 1
        /\ added' = Append(added,
                           [serial |-> s[SerialKey], context |-> me.context,
                            username |-> me.username, key |-> key,
                            note |-> me.note, new_note |-> None])
        /\ procs' = [procs EXCEPT ![p].pc = "stored", ![p].key = key,
                                  ![p].serial = s[SerialKey],
                                  ![p].outcome = "added",
                                  ![p].view = WriteEntry(me.view, key, entry)]
        /\ UNCHANGED << MASTER, pc, last, family, dbm, cx >>

\* s['_serial'] = s['_serial'] + 1, and the with block ends: the shelf is
\* closed
AddAdvance(p) ==
    /\ procs[p].pc = "stored"
    /\ s' = CloseShelf(p, s[SerialKey] + 1)
    /\ procs' = [procs EXCEPT ![p].pc = "idle", ![p].view = NoShelf]
    /\ UNCHANGED << MASTER, clock, pc, last, added, family, dbm, cx >>

\* pws_remove from shelve.open to the end of the with block
\* (pwstore.py:375-400): nothing in it waits.  del s[res[0]] takes the key
\* out of the directory of the file; a shelf another process has open keeps
\* showing it
Remove(p, context, username) ==
    LET res == Matcher(s, ProbeCtx(context, username))
    IN  /\ procs[p].pc = "idle"
        /\ dbm = "gnu" => Open = {}
        /\ s' = IF Cardinality(res) = 1 THEN [k \in DOMAIN s \ res |-> s[k]]
                ELSE s
        /\ procs' = [procs EXCEPT ![p] =
                        [IdleProc EXCEPT
                            !.context = context, !.username = username,
                            !.outcome = CASE Cardinality(res) > 1 -> "ambiguous"
                                          [] Cardinality(res) = 0 -> "notfound"
                                          [] OTHER -> "removed"]]
        /\ UNCHANGED << MASTER, clock, pc, last, added, family, dbm, cx >>

\* pws_update --new_password up to its prompt (pwstore.py:411-443): a unique
\* match is read, entry = s[res[0]], and the process waits at
\* getpass.getpass with the shelf open
UpdateCheck(p, context, username) ==
    LET res == Matcher(s, ProbeCtx(context, username))
        key == CHOOSE k \in res : TRUE
    IN  /\ procs[p].pc = "idle"
        /\ dbm = "gnu" => Open = {}
        /\ Cardinality(res) = 1
               => clock - Len(added) + Cardinality(Reading) < MaxUpdates
        /\ procs' = [procs EXCEPT ![p] =
                        IF Cardinality(res) = 1
                        THEN [IdleProc EXCEPT
                                 !.pc = "read", !.context = context,
                                 !.username = username, !.key = key,
                                 !.entry = s[key], !.view = s]
                        ELSE [IdleProc EXCEPT
                                 !.context = context, !.username = username,
                                 !.outcome = IF Cardinality(res) > 1
                                             THEN "ambiguous" ELSE "notfound"]]
        /\ UNCHANGED << MASTER, s, clock, pc, last, added, family, dbm, cx >>

\* the views of the processes other than p once p has written entry over
\* the value its view holds under key: dbm.dumb writes a value of the same
\* size where the old one was, where every shelf whose directory has the
\* key at that place reads it
Overwritten(p, key, entry) ==
    [q \in Procs |->
        IF /\ q # p
           /\ key \in DOMAIN procs[q].view
           /\ procs[q].view[key].date_added = procs[p].view[key].date_added
        THEN [procs[q] EXCEPT !.view = WriteEntry(@, key, entry)]
        ELSE procs[q]]

\* pws_update from its prompt on (pwstore.py:443-448): the password goes
\* into the entry that was read before the prompt, s[res[0]] = entry, and
\* the with block ends: the shelf is closed
UpdateStore(p) ==
    LET me == procs[p]
        entry == UpdatedEntry(me.entry, None, None, GivenPassword,
                              TypedPassword)
    IN  /\ me.pc = "read"
        /\ s' = WriteEntry(CloseShelf(p, s[SerialKey]), me.key, entry)
        /\ clock' = clock + 1
        /\ procs' = [Overwritten(p, me.key, entry) EXCEPT ![p] =
                        [IdleProc EXCEPT
                            !.context = me.context, !.username = me.username,
                            !.key = me.key, !.outcome = "updated"]]
        /\ UNCHANGED << MASTER, pc, last, added, family, dbm, cx >>

\* the process ends between the two writes.  An exception there leaves the
\* with block, which closes the shelf; a process that is killed leaves the
\* file as it is, the entry in it
Crash(p) ==
    /\ procs[p].pc = "stored"
    /\ \E killed \in BOOLEAN :
          s' = IF killed THEN s ELSE CloseShelf(p, s[SerialKey])
    /\ procs' = [procs EXCEPT ![p].pc = "crashed", ![p].view = NoShelf]
    /\ UNCHANGED << MASTER, clock, pc, last, added, family, dbm, cx >>

\* the program is started again: initialize_storge finds '_serial' and
\* leaves it as it is
Restart(p) ==
    /\ procs[p].pc = "crashed"
    /\ procs' = [procs EXCEPT ![p] = IdleProc]
    /\ UNCHANGED << MASTER, s, clock, pc, last, added, family, dbm, cx >>

\* one process, which may end between the two writes of add
NextCrash ==
    \/ \E c \in AddContexts, u \in AddUsernames, n \in AddNotes :
          AddCheck(1, c, u, n)
    \/ AddStore(1)
    \/ AddAdvance(1)
    \/ Crash(1)
    \/ Restart(1)

SpecCrash == InitProcs /\ [][NextCrash]_vars

\* two processes, neither of which ends early
NextConc ==
    \/ \E p \in Procs, c \in AddContexts, u \in AddUsernames, n \in AddNotes :
          AddCheck(p, c, u, n)
    \/ \E p \in Procs : OpenFails(p)
    \/ \E p \in Procs : AddStore(p)
    \/ \E p \in Procs : AddAdvance(p)
    \/ \E p \in Procs, c \in ProbeContexts, u \in ProbeUsernames :
          Remove(p, c, u)
    \/ \E p \in Procs, c \in ProbeContexts, u \in ProbeUsernames :
          UpdateCheck(p, c, u)
    \/ \E p \in Procs : UpdateStore(p)

\* the families the two processes take their command lines from
ConcFamilies == { "rename", "argv" }

InitConc == InitProcs /\ family \in ConcFamilies

SpecConc == InitConc /\ [][NextConc]_vars

\* C5 as claimed: after add has ended between its steps, the entry and the
\* advanced serial are both there or both missing
C5_AddAtomic ==
    \A p \in Procs :
       procs[p].pc = "crashed"
          => \/ procs[p].key \in DOMAIN s /\ s[SerialKey] = procs[p].serial + 1
             \/ procs[p].key \notin DOMAIN s /\ s[SerialKey] = procs[p].serial

\* C6 as claimed, in what it promises of the store: under every interleaving
\* of two adds no serial builds two keys, the serial is 1 + the number of
\* adds that succeeded once no add is under way, and no two entries, of adds
\* of code points 0..255, have the same context and username
C6_NoCorruption ==
    /\ \A i, j \in 1..Len(added) : i # j => added[i].serial # added[j].serial
    /\ InAdd = {} => s[SerialKey] = Len(added) + 1
    /\ \A i, j \in AddsOf(DOMAIN s) :
          (/\ Latin1(added[i].context) /\ Latin1(added[j].context)
           /\ ContextOf(s, added[i].key) = ContextOf(s, added[j].key)
           /\ UsernameOf(s, added[i].key) = UsernameOf(s, added[j].key))
              => added[i].key = added[j].key

(***************************************************************************)
(* The codec on its own: one pw_encode, then one pw_decode of its result.  *)
(***************************************************************************)
\* code points the longer plaintexts are made of: NUL, 'a', U+0080, U+00FF
CodecChars == { 0, 97, 128, 255 }

\* every one-character str of code points 0..255, the empty str, and the
\* strs of 2..MaxStrLen characters of CodecChars
CodecClears ==
    { << >> } \cup { << c >> : c \in 0..255 }
    \cup UNION { [1..n -> CodecChars] : n \in 2..MaxStrLen }

\* "a", "b", "aa", "ab", "ac", and the digests of "pw" and "pw16" (which
\* both begin with '3')
CodecKeys ==
    { << 97 >>, << 98 >>, << 97, 97 >>, << 97, 98 >>, << 97, 99 >>,
      Sha256Hex(<< 112, 119 >>), Sha256Hex(<< 112, 119, 49, 54 >>) }

InitCodec ==
    /\ MASTER = Sha256Hex(<< 112, 119 >>)
    /\ s = (SerialKey :> 1)
    /\ clock = 0
    /\ pc = "prompt"
    /\ last = NoReport
    /\ added = << >>
    /\ family = "match"
    /\ dbm = "dumb"
    /\ procs = [p \in Procs |-> IdleProc]
    /\ \E key \in CodecKeys, clear \in CodecClears :
          cx = [CodecIdle EXCEPT !.pc = "start", !.key = key, !.clear = clear]

CodecEncode ==
    /\ cx.pc = "start"
    /\ cx' = [cx EXCEPT !.pc = "encoded", !.enc = pw_encode(cx.key, cx.clear)]
    /\ UNCHANGED storeVars

CodecDecode(key2) ==
    /\ cx.pc = "encoded"
    /\ cx' = [cx EXCEPT !.pc = "decoded", !.key2 = key2,
                        !.dec = pw_decode(key2, cx.enc)]
    /\ UNCHANGED storeVars

NextCodec ==
    \/ CodecEncode
    \/ \E key2 \in CodecKeys : CodecDecode(key2)

SpecCodec == InitCodec /\ [][NextCodec]_vars

\* the key character used for the character at index i (from 0), modulo 256
KeyStream(key, i) == KeyAt(key, i) % 256

\* two keys add the same to each of the first n characters
SameKeyStream(k1, k2, n) ==
    \A i \in 0..(n - 1) : KeyStream(k1, i) = KeyStream(k2, i)

\* C9: decoding with the key that encoded gives back the plaintext, for every
\* plaintext of code points 0..255 and every key, also a key shorter than the
\* plaintext; the empty plaintext encodes to the empty str
C9_RoundTrip ==
    /\ (cx.pc \in { "encoded", "decoded" } /\ cx.clear = << >>) => cx.enc = << >>
    /\ (cx.pc = "decoded" /\ cx.key2 = cx.key) => cx.dec = cx.clear

\* a two-character plaintext with a code point above 127 went through a
\* one-character key and came back
C9_Witness ==
    /\ cx.pc = "decoded"
    /\ cx.key2 = cx.key
    /\ Len(cx.key) = 1
    /\ cx.clear = << 255, 128 >>
    /\ cx.dec = cx.clear

\* C10 as claimed: decoding with any other key never gives back a non-empty
\* plaintext
C10_AnyOtherKey ==
    (cx.pc = "decoded" /\ cx.key2 # cx.key /\ cx.clear # << >>)
        => cx.dec # cx.clear

\* C10 as amended: decoding with another key gives back a non-empty plaintext
\* exactly when the two keys add the same, modulo 256, to each of its
\* characters; a key that differs there never gives it back
C10_KeySensitivity ==
    (cx.pc = "decoded" /\ cx.clear # << >>)
        => (cx.dec = cx.clear
               <=> SameKeyStream(cx.key, cx.key2, Len(cx.clear)))

\* "ab" decoded under "ac" what "ab" encoded: the second characters differ
C10_Witness ==
    /\ cx.pc = "decoded"
    /\ cx.key = << 97, 98 >>
    /\ cx.key2 = << 97, 99 >>
    /\ Len(cx.clear) = 2
    /\ cx.dec # cx.clear

(***************************************************************************)
(* The storage key on its own: the address of two (serial, context,        *)
(* username) triples and its encoding, as add builds them                  *)
(* (pwstore.py:329, 357).                                                  *)
(***************************************************************************)
\* "", "a", "1", "_", U+0101, U+0001
AddressContexts ==
    { << >>, << 97 >>, << 49 >>, << Underscore >>, << 257 >>, << 1 >> }

\* "", "a", "_"
AddressUsernames == { << >>, << 97 >>, << Underscore >> }

AddressTriples ==
    [serial : 1..MaxSerial, context : AddressContexts,
     username : AddressUsernames]

\* the key add stores an entry under
StorageKey(t) ==
    pw_encode(MASTER, Address(t.serial, CtxFull(t.context, t.username)))

InitAddress ==
    /\ MASTER = Sha256Hex(<< 112, 119 >>)
    /\ s = (SerialKey :> 1)
    /\ clock = 0
    /\ pc = "prompt"
    /\ last = NoReport
    /\ added = << >>
    /\ family = "match"
    /\ dbm = "dumb"
    /\ procs = [p \in Procs |-> IdleProc]
    /\ \E t1, t2 \in AddressTriples :
          cx = [pc |-> "start", t1 |-> t1, t2 |-> t2,
                addr1 |-> << >>, addr2 |-> << >>,
                key1 |-> << >>, key2 |-> << >>]

\* ctx and '{}_{}__'.format(s['_serial'], ctx) for both triples
ComposeAddress ==
    /\ cx.pc = "start"
    /\ cx' = [cx EXCEPT
                !.pc = "composed",
                !.addr1 = Address(cx.t1.serial,
                                  CtxFull(cx.t1.context, cx.t1.username)),
                !.addr2 = Address(cx.t2.serial,
                                  CtxFull(cx.t2.context, cx.t2.username))]
    /\ UNCHANGED storeVars

\* key = pw_encode(MASTER, address) for both
EncodeAddress ==
    /\ cx.pc = "composed"
    /\ cx' = [cx EXCEPT !.pc = "encoded", !.key1 = StorageKey(cx.t1),
                        !.key2 = StorageKey(cx.t2)]
    /\ UNCHANGED storeVars

NextAddress == ComposeAddress \/ EncodeAddress

SpecAddress == InitAddress /\ [][NextAddress]_vars

\* neither the context nor the username of t has a '_'
Undelimited(t) == NoUnderscore(t.context) /\ NoUnderscore(t.username)

\* the context and the username of t are of code points 0..255
Latin1Triple(t) == Latin1(t.context) /\ Latin1(t.username)

\* C11 as claimed: two different triples without '_' in context and username
\* have different addresses and different storage keys
C11_KeysDistinct ==
    (/\ cx.pc = "encoded"
     /\ cx.t1 # cx.t2
     /\ Undelimited(cx.t1)
     /\ Undelimited(cx.t2))
        => (cx.addr1 # cx.addr2 /\ cx.key1 # cx.key2)

\* C11 as amended: two different triples without '_' in context and username
\* have different addresses, and different storage keys when the contexts
\* and usernames are of code points 0..255
C11_AddressUnique ==
    (/\ cx.pc = "encoded"
     /\ cx.t1 # cx.t2
     /\ Undelimited(cx.t1)
     /\ Undelimited(cx.t2))
        => /\ cx.addr1 # cx.addr2
           /\ (Latin1Triple(cx.t1) /\ Latin1Triple(cx.t2))
                  => cx.key1 # cx.key2

\* serial 1 with context "1" and serial 11 with context "": the same digits
\* and letters in a row, two addresses and two keys
C11_Witness ==
    /\ cx.pc = "encoded"
    /\ cx.t1 = [serial |-> 1, context |-> << 49 >>, username |-> << >>]
    /\ cx.t2 = [serial |-> 11, context |-> << >>, username |-> << >>]
    /\ cx.addr1 # cx.addr2
    /\ cx.key1 # cx.key2

=============================================================================
